---- MODULE Spec2Model ----
(***************************************************************************)
(* Model of the survey wizard of src/src/App.jsx: the React state of the   *)
(* App component (stepIndex, form, status, consent, showSuccess), the      *)
(* event handlers that change it, the asynchronous handleSubmit with its   *)
(* three awaited remote calls, the post-success reset timer, the object    *)
(* URLs handed out by URL.createObjectURL, and the two remote stores       *)
(* (the `surveys` table and the `survey-uploads` bucket).                  *)
(*                                                                         *)
(* Conventions.  JavaScript strings that the code inspects (trim) are      *)
(* sequences of one-character strings.  null is the empty tuple <<>> for   *)
(* files, paths and urls; the empty preview url '' is 0 and a created      *)
(* object URL is a positive number.  status holds status.state; the        *)
(* message is display text only.  A handler closes over the state of the   *)
(* render in which it was invoked, so an attempt carries the form it        *)
(* captured.                                                               *)
(***************************************************************************)
EXTENDS Integers, Sequences, FiniteSets, TLC

VARIABLES stepIndex, form, status, consent, showSuccess,
          attempts, records, blobs, urlCount, revoked, inputs

vars == <<stepIndex, form, status, consent, showSuccess,
          attempts, records, blobs, urlCount, revoked, inputs>>

(* ---- bounds of the exploration ---------------------------------------- *)
\* The inputs of one session that grow the state (field edits, accepted image
\* selections, consented submissions) are budgeted together.
MaxInputs == 3

(* ---- inputs the user can provide --------------------------------------- *)
ProductOptions == {"Tours & Experiences", "Other"}
AudienceOptions == {"Direct Consumers", "Other"}
TextInputs == {<<>>, <<" ">>, <<"a">>}
TeamSizes == {12, 100}
PainEdits == {<<"customerEnd", "lms", TRUE>>, <<"customerEnd", "lms", FALSE>>}
Files ==
  { [name |-> <<"trip", "jpg">>, type |-> <<"image", "jpeg">>],
    [name |-> <<"notes", "pdf">>, type |-> <<"application", "pdf">>] }

STEPS == <<"profiling", "pain", "photo", "review">>

initialForm ==
  [ profiling |->
      [ products |-> <<"Tours & Experiences">>,
        productsOther |-> <<>>,
        audience |-> <<"Direct Consumers">>,
        audienceOther |-> <<>>,
        teamSize |-> 12 ],
    painPoints |->
      [ customerEnd |->
          [ lms |-> FALSE, conversionTimeQuote |-> FALSE,
            rightCustomers |-> FALSE, other |-> <<>> ],
        internalOps |->
          [ finance |-> FALSE, reports |-> FALSE, dk |-> FALSE,
            dayToDayBookings |-> FALSE, onTripOps |-> FALSE,
            trainingNewJoinee |-> FALSE, other |-> <<>> ],
        supplierEnd |->
          [ marketplace |-> FALSE, prices |-> FALSE,
            landPartPrices |-> FALSE, other |-> <<>> ] ],
    photo |-> [ file |-> <<>>, previewUrl |-> 0 ] ]

(* ---- String.prototype.trim and Array helpers --------------------------- *)
IsSpace(c) == c \in {" ", "\t", "\n"}

RECURSIVE TrimStart(_)
TrimStart(s) ==
  IF s = <<>> THEN <<>>
  ELSE IF IsSpace(Head(s)) THEN TrimStart(Tail(s)) ELSE s

RECURSIVE TrimEnd(_)
TrimEnd(s) ==
  IF s = <<>> THEN <<>>
  ELSE IF IsSpace(s[Len(s)]) THEN TrimEnd(SubSeq(s, 1, Len(s) - 1)) ELSE s

trim(s) == TrimEnd(TrimStart(s))

Truthy(s) == s # <<>>

includes(arr, x) == \E i \in 1..Len(arr) : arr[i] = x

filter(arr, x) == SelectSeq(arr, LAMBDA item : item # x)

(* ---- validateStep ------------------------------------------------------ *)
\* Faulty variants (here and below, defined right before the definition they
\* vary) are used to test that the properties notice such a fault: a
\* validateStep that does not trim, and one that forgets the audience.
validateStepNoTrim(stepId, f) ==
  IF stepId = "profiling"
  THEN /\ Len(f.profiling.products) > 0
       /\ (~includes(f.profiling.products, "Other") \/ Truthy(f.profiling.productsOther))
       /\ Len(f.profiling.audience) > 0
       /\ (~includes(f.profiling.audience, "Other") \/ Truthy(f.profiling.audienceOther))
  ELSE TRUE

validateStepProductsOnly(stepId, f) ==
  IF stepId = "profiling"
  THEN /\ Len(f.profiling.products) > 0
       /\ (~includes(f.profiling.products, "Other")
             \/ Truthy(trim(f.profiling.productsOther)))
  ELSE TRUE

validateStep(stepId, f) ==
  IF stepId = "profiling"
  THEN LET productsOk ==
             /\ Len(f.profiling.products) > 0
             /\ (~includes(f.profiling.products, "Other")
                   \/ Truthy(trim(f.profiling.productsOther)))
           audienceOk ==
             /\ Len(f.profiling.audience) > 0
             /\ (~includes(f.profiling.audience, "Other")
                   \/ Truthy(trim(f.profiling.audienceOther)))
       IN  productsOk /\ audienceOk
  ELSE TRUE

buildPayload(f) ==
  [ profiling |-> f.profiling,
    pain_points |->
      [ customer_end |-> f.painPoints.customerEnd,
        internal_ops |-> f.painPoints.internalOps,
        supplier_end |-> f.painPoints.supplierEnd ] ]

step == STEPS[stepIndex + 1]

canProceed == validateStep(step, form)

\* Date.now() / new Date(): the clock reads the number of budgeted inputs so
\* far, so readings never decrease.
Timestamps == {inputs}

Min(a, b) == IF a < b THEN a ELSE b
Max(a, b) == IF a > b THEN a ELSE b

(* ---- initial state ------------------------------------------------------ *)
Init ==
  /\ stepIndex = 0
  /\ form = initialForm
  /\ status = "idle"
  /\ consent = TRUE
  /\ showSuccess = FALSE
  /\ attempts = <<>>
  /\ records = <<>>
  /\ blobs = {}
  /\ urlCount = 0
  /\ revoked = {}
  /\ inputs = 0

remote == <<attempts, records, blobs>>
handles == <<urlCount, revoked>>

(* ---- profiling and pain point edits (rendered only on their step) ------ *)
updateProfiling(field, value) ==
  /\ inputs < MaxInputs
  /\ inputs' = inputs + 1
  /\ form' = [form EXCEPT !.profiling[field] = value]
  /\ UNCHANGED <<stepIndex, status, consent, showSuccess, remote, handles>>

ToggleProduct ==
  /\ step = "profiling"
  /\ \E option \in ProductOptions :
       LET cur == form.profiling.products
           next == IF ~includes(cur, option)
                   THEN Append(cur, option) ELSE filter(cur, option)
       IN  updateProfiling("products", next)

ToggleAudience ==
  /\ step = "profiling"
  /\ \E option \in AudienceOptions :
       LET cur == form.profiling.audience
           next == IF ~includes(cur, option)
                   THEN Append(cur, option) ELSE filter(cur, option)
       IN  updateProfiling("audience", next)

TypeProductsOther ==
  /\ step = "profiling"
  /\ includes(form.profiling.products, "Other")
  /\ \E value \in TextInputs \ {form.profiling.productsOther} :
       updateProfiling("productsOther", value)

TypeAudienceOther ==
  /\ step = "profiling"
  /\ includes(form.profiling.audience, "Other")
  /\ \E value \in TextInputs \ {form.profiling.audienceOther} :
       updateProfiling("audienceOther", value)

SlideTeamSize ==
  /\ step = "profiling"
  /\ \E value \in TeamSizes \ {form.profiling.teamSize} :
       updateProfiling("teamSize", value)

updatePainPoints ==
  /\ step = "pain"
  /\ inputs < MaxInputs
  /\ \E e \in PainEdits :
       /\ form.painPoints[e[1]][e[2]] # e[3]
       /\ form' = [form EXCEPT !.painPoints[e[1]][e[2]] = e[3]]
  /\ inputs' = inputs + 1
  /\ UNCHANGED <<stepIndex, status, consent, showSuccess, remote, handles>>

(* ---- navigation --------------------------------------------------------- *)
nextStep ==
  /\ step # "review"
  /\ IF ~canProceed
     THEN /\ status' = "error"
          /\ UNCHANGED stepIndex
     ELSE /\ status' = "idle"
          /\ stepIndex' = Min(stepIndex + 1, Len(STEPS) - 1)
  /\ UNCHANGED <<form, consent, showSuccess, remote, handles, inputs>>

prevStep ==
  /\ stepIndex # 0
  /\ status' = "idle"
  /\ stepIndex' = Max(stepIndex - 1, 0)
  /\ UNCHANGED <<form, consent, showSuccess, remote, handles, inputs>>

(* ---- photo step --------------------------------------------------------- *)
startsWithImage(type) == Len(type) > 0 /\ type[1] = "image"

\* The photo state handleFileChange installs for an accepted image, and the
\* object URLs it revokes while doing so (it revokes none).
revokedOnReplace(prevUrl) == {}

handleFileChange ==
  /\ step = "photo"
  /\ \E file \in Files :
       IF ~startsWithImage(file.type)
       THEN /\ status' = "error"
            /\ UNCHANGED <<form, handles, inputs>>
       ELSE /\ inputs < MaxInputs
            /\ inputs' = inputs + 1
            /\ urlCount' = urlCount + 1
            /\ revoked' = revoked \cup revokedOnReplace(form.photo.previewUrl)
            /\ form' = [form EXCEPT !.photo =
                          [file |-> file, previewUrl |-> urlCount + 1]]
            /\ UNCHANGED status
  /\ UNCHANGED <<stepIndex, consent, showSuccess, remote>>

handleRetake ==
  /\ step = "photo"
  /\ form.photo.previewUrl # 0
  /\ revoked' = revoked \cup {form.photo.previewUrl}
  /\ form' = [form EXCEPT !.photo = [file |-> <<>>, previewUrl |-> 0]]
  /\ UNCHANGED <<stepIndex, status, consent, showSuccess, remote, urlCount, inputs>>

(* ---- review step --------------------------------------------------------- *)
setConsent ==
  /\ step = "review"
  /\ consent' = ~consent
  /\ UNCHANGED <<stepIndex, form, status, showSuccess, remote, handles, inputs>>

\* disabled={status.state === 'loading'} on the Submit button
submitDisabled == status = "loading"

InFlight == {"Inserting", "Uploading", "Attaching"}
Failed == {"FailedInsert", "FailedUpload", "FailedAttach"}
Terminal == {"Done"} \cup Failed

\* handleSubmit up to its first await: the consent check, the loading status
\* and the insert request built from the form of the current render.  An
\* attempt records the closure (form), what it sent, how often it called each
\* remote operation and what each call returned ("none" not called, "pending"
\* awaited, "ok", "error"), where it stands (pc) and its reset timer.
handleSubmit ==
  /\ step = "review"
  /\ ~submitDisabled
  /\ IF ~consent
     THEN /\ status' = "error"
          /\ UNCHANGED <<attempts, inputs>>
     ELSE /\ inputs < MaxInputs
          /\ inputs' = inputs + 1
          /\ status' = "loading"
          /\ \E now \in Timestamps :
               attempts' = Append(attempts,
                 [ pc |-> "Inserting", form |-> form, payload |-> buildPayload(form),
                   created_at |-> now, surveyId |-> 0, filePath |-> <<>>,
                   insertCalls |-> 1, uploadCalls |-> 0, updateCalls |-> 0,
                   insertResult |-> "pending", uploadResult |-> "none",
                   updateResult |-> "none", timer |-> "none" ])
  /\ UNCHANGED <<stepIndex, form, consent, showSuccess, records, blobs, handles>>

(* ---- the remote stores ---------------------------------------------------- *)
\* surveys.insert([...]).select().single(): a new row with a generated id
\* and null photo fields.  updates counts the updates applied to the row.
RecordStoreInsert(rs, data, createdAt) ==
  Append(rs, [ id |-> Len(rs) + 1, created_at |-> createdAt, data |-> data,
               photo_path |-> <<>>, photo_url |-> <<>>, updates |-> 0 ])

\* surveys.update({photo_path, photo_url}).eq('id', id)
RecordStoreUpdate(rs, id, path, url) ==
  [ k \in DOMAIN rs |->
      IF rs[k].id = id
      THEN [rs[k] EXCEPT !.photo_path = path, !.photo_url = url,
                         !.updates = @ + 1]
      ELSE rs[k] ]

\* storage.from('survey-uploads').upload(path, file, {upsert: false})
BlobStoreCanStore(bs, path) == path \notin bs
BlobStoreUpload(bs, path) == bs \cup {path}

getPublicUrl(path) == <<"survey-uploads", path>>

(* ---- handleSubmit after each await ---------------------------------------- *)
Last(s) == s[Len(s)]

\* `survey-photos/survey-${surveyId}-${Date.now()}.${fileExt}`
fileExt(file) == IF file = <<>> THEN <<>> ELSE Last(file.name)

filePathOf(surveyId, now, file) == <<"survey-photos", surveyId, now, fileExt(file)>>

\* where handleSubmit goes once the insert has returned (variants: without
\* the insertError check, without the form.photo.file check)
afterInsertIgnoringError(ok, f) ==
  IF f.photo.file # <<>> THEN "Uploading" ELSE "Done"

afterInsertIgnoringFile(ok, f) ==
  IF ~ok THEN "FailedInsert" ELSE "Uploading"

afterInsert(ok, f) ==
  IF ~ok THEN "FailedInsert"
  ELSE IF f.photo.file # <<>> THEN "Uploading"
  ELSE "Done"

\* where handleSubmit goes once the upload has returned (variant: without
\* the uploadError check)
afterUploadIgnoringError(ok) == "Attaching"

afterUpload(ok) == IF ~ok THEN "FailedUpload" ELSE "Attaching"

\* where handleSubmit goes once the update has returned
afterUpdate(ok) == IF ~ok THEN "FailedAttach" ELSE "Done"

\* .eq('id', surveyId) (variant: always the first row)
updateTargetFirst(a) == 1

updateTarget(a) == a.surveyId

\* photo_path: filePath of the update (variant: the path built again with a
\* later clock reading)
photoPathRecomputed(a) == filePathOf(a.surveyId, a.filePath[3] + 1, a.form.photo.file)

photoPath(a) == a.filePath

\* setStatus of the catch block (variant: the catch leaves status alone)
catchStatusKept == status

catchStatus == "error"

\* the tail of the try block: success status, overlay, and the reset timer
\* (variant: a statement after setStatus throws, so the catch block also runs
\* and its status is the one rendered)
succeedThenCaught(i, a) ==
  /\ status' = "error"
  /\ showSuccess' = TRUE
  /\ attempts' = [attempts EXCEPT ![i] = [a EXCEPT !.pc = "Done", !.timer = "pending"]]

succeed(i, a) ==
  /\ status' = "success"
  /\ showSuccess' = TRUE
  /\ attempts' = [attempts EXCEPT ![i] = [a EXCEPT !.pc = "Done", !.timer = "pending"]]

fail(i, a, pc) ==
  /\ status' = catchStatus
  /\ attempts' = [attempts EXCEPT ![i] = [a EXCEPT !.pc = pc]]
  /\ UNCHANGED showSuccess

InsertReturn ==
  \E i \in DOMAIN attempts : \E ok \in BOOLEAN : \E now \in Timestamps :
    LET a  == attempts[i]
        rs == IF ok THEN RecordStoreInsert(records, a.payload, a.created_at)
              ELSE records
        id == IF ok THEN Last(rs).id ELSE 0
        b  == [a EXCEPT !.surveyId = id,
                        !.insertResult = IF ok THEN "ok" ELSE "error"]
        pc == afterInsert(ok, a.form)
    IN  /\ a.pc = "Inserting"
        /\ records' = rs
        /\ CASE pc = "FailedInsert" -> fail(i, b, pc)
             [] pc = "Uploading" ->
                  /\ attempts' = [attempts EXCEPT ![i] =
                       [b EXCEPT !.pc = pc,
                                 !.filePath = filePathOf(id, now, a.form.photo.file),
                                 !.uploadCalls = @ + 1,
                                 !.uploadResult = "pending"]]
                  /\ UNCHANGED <<status, showSuccess>>
             [] OTHER -> succeed(i, b)
        /\ UNCHANGED <<stepIndex, form, consent, blobs, handles, inputs>>

UploadReturn ==
  \E i \in DOMAIN attempts : \E ok \in BOOLEAN :
    LET a0 == attempts[i]
        a  == [a0 EXCEPT !.uploadResult = IF ok THEN "ok" ELSE "error"]
        pc == afterUpload(ok)
    IN  /\ a0.pc = "Uploading"
        /\ ok => BlobStoreCanStore(blobs, a.filePath)
        /\ blobs' = IF ok THEN BlobStoreUpload(blobs, a.filePath) ELSE blobs
        /\ IF pc = "FailedUpload"
           THEN fail(i, a, pc)
           ELSE /\ attempts' = [attempts EXCEPT ![i] =
                      [a EXCEPT !.pc = pc, !.updateCalls = @ + 1,
                                !.updateResult = "pending"]]
                /\ UNCHANGED <<status, showSuccess>>
        /\ UNCHANGED <<stepIndex, form, consent, records, handles, inputs>>

UpdateReturn ==
  \E i \in DOMAIN attempts : \E ok \in BOOLEAN :
    LET a0 == attempts[i]
        a  == [a0 EXCEPT !.updateResult = IF ok THEN "ok" ELSE "error"]
        pc == afterUpdate(ok)
    IN  /\ a0.pc = "Attaching"
        /\ records' = IF ok
                      THEN RecordStoreUpdate(records, updateTarget(a), photoPath(a),
                                             getPublicUrl(photoPath(a)))
                      ELSE records
        /\ IF pc = "FailedAttach" THEN fail(i, a, pc) ELSE succeed(i, a)
        /\ UNCHANGED <<stepIndex, form, consent, blobs, handles, inputs>>

\* the setTimeout callback of a successful attempt, 1800 ms after success
ResetTimer ==
  \E i \in DOMAIN attempts :
    LET a == attempts[i]
    IN  /\ a.timer = "pending"
        /\ showSuccess' = FALSE
        /\ status' = "idle"
        /\ form' = initialForm
        /\ consent' = TRUE
        /\ stepIndex' = 0
        /\ revoked' = IF a.form.photo.previewUrl # 0
                      THEN revoked \cup {a.form.photo.previewUrl} ELSE revoked
        /\ attempts' = [attempts EXCEPT ![i].timer = "fired"]
        /\ UNCHANGED <<records, blobs, urlCount, inputs>>

Next ==
  \/ ToggleProduct
  \/ ToggleAudience
  \/ TypeProductsOther
  \/ TypeAudienceOther
  \/ SlideTeamSize
  \/ updatePainPoints
  \/ nextStep
  \/ prevStep
  \/ handleFileChange
  \/ handleRetake
  \/ setConsent
  \/ handleSubmit
  \/ InsertReturn
  \/ UploadReturn
  \/ UpdateReturn
  \/ ResetTimer

Spec == Init /\ [][Next]_vars

\* Every remote call eventually returns, with a result or an error: each
\* attempt's awaited insert, upload and update is answered.  Nothing is
\* assumed of the user or of the timer.
RemoteCallsReturn ==
  /\ WF_vars(InsertReturn)
  /\ WF_vars(UploadReturn)
  /\ WF_vars(UpdateReturn)

FairSpec == Spec /\ RemoteCallsReturn

(* ======================================================================= *)
(* Properties                                                              *)
(* ======================================================================= *)
Attempts == DOMAIN attempts
Records == DOMAIN records

\* the records whose id is the one the insert of attempt i returned
RecordsOf(i) == {k \in Records : records[k].id = attempts[i].surveyId}

HasFile(i) == attempts[i].form.photo.file # <<>>

\* attempt i leaves pc `from` in this step
Leaves(i, from) ==
  /\ attempts[i].pc = from
  /\ i \in DOMAIN attempts'
  /\ attempts'[i].pc # from

\* C1: at most one submission is in flight per form instance: while an
\* attempt has not reached its terminal status no second handleSubmit
\* invocation has started.
C1_AtMostOneInFlight ==
  Cardinality({i \in Attempts : attempts[i].pc \in InFlight}) <= 1

\* C2: an attempt whose insert failed never calls the upload or the update,
\* has no record, is in FailedInsert, and the step in which its insert
\* fails sets status 'error' and leaves both stores as they were.
C2_Inv ==
  \A i \in Attempts :
    attempts[i].insertResult = "error" =>
      /\ attempts[i].pc = "FailedInsert"
      /\ attempts[i].uploadCalls = 0
      /\ attempts[i].updateCalls = 0
      /\ attempts[i].uploadResult = "none"
      /\ attempts[i].updateResult = "none"
      /\ RecordsOf(i) = {}

C2_Step ==
  \A i \in Attempts :
    (attempts[i].insertResult = "pending" /\ attempts'[i].insertResult = "error") =>
      /\ status' = "error"
      /\ records' = records
      /\ blobs' = blobs

C2_FailedInsertStopsAttempt == [](C2_Inv) /\ [][C2_Step]_vars

C2_Witness ==
  \E i \in Attempts :
    /\ attempts[i].insertResult = "error"
    /\ HasFile(i)
    /\ status = "error"
    /\ \E j \in Attempts : attempts[j].insertResult = "ok"

\* C3: no rollback after a successful insert.  An attempt whose upload
\* failed is in FailedUpload, made no update call, and its record exists
\* with photo_path null; an attempt whose update failed is in FailedAttach,
\* its record exists with photo_path null and its object is in the Blob
\* Store; the failing step sets status 'error' and removes nothing.
C3_Inv ==
  \A i \in Attempts :
    /\ attempts[i].uploadResult = "error" =>
         /\ attempts[i].insertResult = "ok"
         /\ attempts[i].pc = "FailedUpload"
         /\ attempts[i].updateCalls = 0
         /\ RecordsOf(i) # {}
         /\ \A k \in RecordsOf(i) : records[k].photo_path = <<>>
    /\ attempts[i].updateResult = "error" =>
         /\ attempts[i].uploadResult = "ok"
         /\ attempts[i].pc = "FailedAttach"
         /\ RecordsOf(i) # {}
         /\ \A k \in RecordsOf(i) : records[k].photo_path = <<>>
         /\ attempts[i].filePath \in blobs

C3_Step ==
  \A i \in Attempts :
    (\/ attempts[i].uploadResult = "pending" /\ attempts'[i].uploadResult = "error"
     \/ attempts[i].updateResult = "pending" /\ attempts'[i].updateResult = "error") =>
      /\ status' = "error"
      /\ records' = records
      /\ blobs' = blobs

C3_NoRollback == [](C3_Inv) /\ [][C3_Step]_vars

C3_Witness ==
  \E i, j \in Attempts :
    /\ attempts[i].pc = "FailedUpload"
    /\ attempts[j].pc = "FailedAttach"
    /\ Len(records) = 2
    /\ blobs = {attempts[j].filePath}

\* C4: every record with a non-null photo_path has an object in the Blob
\* Store at exactly that path, and every record has been updated at most
\* once, by an attempt whose upload for that record succeeded.
C4_PhotoPathHasBlob ==
  \A k \in Records :
    /\ records[k].photo_path # <<>> => records[k].photo_path \in blobs
    /\ records[k].updates <= 1
    /\ records[k].updates > 0 =>
         \E i \in Attempts :
           /\ attempts[i].surveyId = records[k].id
           /\ attempts[i].uploadResult = "ok"
           /\ attempts[i].filePath = records[k].photo_path
           /\ attempts[i].filePath[2] = records[k].id

C4_Witness ==
  \E k, m \in Records :
    /\ records[k].photo_path # <<>>
    /\ records[k].updates = 1
    /\ records[m].photo_path = <<>>
    /\ Cardinality(blobs) = 2

\* C5: every consented submit calls the insert exactly once; an attempt
\* whose captured form has no photo file makes no upload and no update
\* call, and once its insert has succeeded it is Done, the step that
\* learns of the success sets status 'success', and its record keeps null
\* photo fields.
C5_Inv ==
  \A i \in Attempts :
    /\ attempts[i].insertCalls = 1
    /\ ~HasFile(i) =>
         /\ attempts[i].uploadCalls = 0
         /\ attempts[i].updateCalls = 0
         /\ attempts[i].insertResult = "ok" =>
              /\ attempts[i].pc = "Done"
              /\ RecordsOf(i) # {}
              /\ \A k \in RecordsOf(i) :
                   records[k].photo_path = <<>> /\ records[k].photo_url = <<>>

C5_Step ==
  /\ (handleSubmit /\ consent) =>
        /\ Len(attempts') = Len(attempts) + 1
        /\ attempts'[Len(attempts')].form = form
        /\ attempts'[Len(attempts')].insertCalls = 1
  /\ \A i \in Attempts :
       (~HasFile(i) /\ attempts[i].insertResult = "pending"
          /\ attempts'[i].insertResult = "ok") =>
         /\ status' = "success"
         /\ blobs' = blobs

C5_NoPhotoNoUpload == [](C5_Inv) /\ [][C5_Step]_vars

C5_Witness ==
  \E i, j \in Attempts :
    /\ ~HasFile(i)
    /\ attempts[i].pc = "Done"
    /\ Len(records) = 2
    /\ HasFile(j)
    /\ attempts[j].pc = "Done"
    /\ form.photo.file = <<>>

\* a text that is empty or consists of whitespace only
Blank(s) == \A n \in 1..Len(s) : IsSpace(s[n])

\* the minimal profiling invariant: products and audience non-empty, and
\* the free text present whenever 'Other' is selected
MinimalProfiling(p) ==
  /\ p.products # <<>>
  /\ p.audience # <<>>
  /\ includes(p.products, "Other") => ~Blank(p.productsOther)
  /\ includes(p.audience, "Other") => ~Blank(p.audienceOther)

\* C6: on the profiling step, when products or audience is empty, or
\* includes 'Other' with an empty or whitespace-only free text, nextStep
\* leaves stepIndex at 0 and sets status 'error'; no step leaves the
\* profiling step in such a state.
C6_Step ==
  (stepIndex = 0 /\ ~MinimalProfiling(form.profiling)) =>
     /\ nextStep => (stepIndex' = 0 /\ status' = "error" /\ form' = form)
     /\ stepIndex' = 0

C6_ValidationRejects == [][C6_Step]_vars

C6_Witness ==
  /\ stepIndex = 0
  /\ status = "error"
  /\ attempts = <<>>
  /\ includes(form.profiling.audience, "Other")
  /\ form.profiling.audienceOther = <<" ">>

\* the object URLs created and not yet revoked
LiveHandles == (1..urlCount) \ revoked

\* C7: every preview handle that was created and is not the one referenced
\* by form.photo.previewUrl has been revoked, so at most one handle is live.
C7_HandlesReleased ==
  /\ \A u \in LiveHandles : u = form.photo.previewUrl
  /\ Cardinality(LiveHandles) <= 1

\* C8: whenever stepIndex > 0 the form satisfies the minimal profiling
\* invariant, and so does every payload sent to and every record held by
\* the Record Store.
C8_MinimalInvariant ==
  /\ stepIndex > 0 => MinimalProfiling(form.profiling)
  /\ \A i \in Attempts :
       /\ MinimalProfiling(attempts[i].form.profiling)
       /\ attempts[i].payload.profiling = attempts[i].form.profiling
  /\ \A k \in Records : MinimalProfiling(records[k].data.profiling)

C8_Witness ==
  /\ stepIndex = 3
  /\ \E k \in Records :
       /\ includes(records[k].data.profiling.products, "Other")
       /\ records[k].data.profiling.productsOther = <<"a">>

\* C9: a submit never changes an earlier record.  Every successful insert
\* adds one record with an identifier no record had, holding the payload of
\* the attempt that made the call; a record changes only in the update of
\* the attempt that inserted it, which sets photo_path and photo_url and
\* leaves id, created_at and data alone; no two attempts share a record.
C9_Inv ==
  /\ \A k, m \in Records : records[k].id = records[m].id => k = m
  /\ \A i, j \in Attempts :
       (attempts[i].insertResult = "ok" /\ attempts[j].insertResult = "ok"
          /\ attempts[i].surveyId = attempts[j].surveyId) => i = j
  /\ \A i \in Attempts :
       attempts[i].insertResult = "ok" =>
         \E k \in Records : /\ RecordsOf(i) = {k}
                            /\ records[k].data = attempts[i].payload

C9_Step ==
  /\ \A k \in Records :
       /\ k \in DOMAIN records'
       /\ records'[k].id = records[k].id
       /\ records'[k].created_at = records[k].created_at
       /\ records'[k].data = records[k].data
       /\ records'[k] # records[k] =>
            \E i \in Attempts :
              /\ Leaves(i, "Attaching")
              /\ attempts[i].surveyId = records[k].id
              /\ \A j \in Attempts \ {i} : attempts'[j] = attempts[j]
  /\ \A i \in Attempts :
       (attempts[i].insertResult = "pending" /\ attempts'[i].insertResult = "ok") =>
         /\ Len(records') = Len(records) + 1
         /\ \A k \in Records : records[k].id # records'[Len(records')].id
         /\ attempts'[i].surveyId = records'[Len(records')].id
         /\ records'[Len(records')].data = attempts[i].payload
         /\ records'[Len(records')].photo_path = <<>>
         /\ records'[Len(records')].photo_url = <<>>

C9_RetryNeverRepairs == [](C9_Inv) /\ [][C9_Step]_vars

C9_Witness ==
  \E i, j \in Attempts :
    /\ i < j
    /\ attempts[i].pc \in {"FailedUpload", "FailedAttach"}
    /\ attempts[j].pc = "Done"
    /\ attempts[j].updateResult = "ok"
    /\ \A k \in RecordsOf(i) : records[k].photo_path = <<>>
    /\ \A k \in RecordsOf(j) : records[k].photo_path = attempts[j].filePath

\* C10: the remote calls of one attempt are strictly sequential.  At most
\* one call of an attempt is awaited at a time; the upload is called only
\* after the insert returned ok and the update only after the upload
\* returned ok; each is called at most once; and pc moves only along
\* Inserting -> {Uploading | Done | FailedInsert},
\* Uploading -> {Attaching | FailedUpload}, Attaching -> {Done | FailedAttach}.
Transitions ==
  { <<"Inserting", "Uploading">>, <<"Inserting", "Done">>,
    <<"Inserting", "FailedInsert">>, <<"Uploading", "Attaching">>,
    <<"Uploading", "FailedUpload">>, <<"Attaching", "Done">>,
    <<"Attaching", "FailedAttach">> }

C10_Inv ==
  \A i \in Attempts :
    LET a == attempts[i] IN
    /\ a.pc = "Inserting" <=> a.insertResult = "pending"
    /\ a.pc = "Uploading" <=> a.uploadResult = "pending"
    /\ a.pc = "Attaching" <=> a.updateResult = "pending"
    /\ a.insertCalls <= 1 /\ a.uploadCalls <= 1 /\ a.updateCalls <= 1
    /\ (a.uploadCalls > 0 \/ a.uploadResult # "none") => a.insertResult = "ok"
    /\ (a.updateCalls > 0 \/ a.updateResult # "none") => a.uploadResult = "ok"
    /\ a.uploadResult = "ok" <=> a.filePath \in blobs

C10_Step ==
  /\ \A i \in Attempts :
       /\ i \in DOMAIN attempts'
       /\ \/ attempts'[i].pc = attempts[i].pc
          \/ <<attempts[i].pc, attempts'[i].pc>> \in Transitions
       /\ attempts'[i].uploadCalls > attempts[i].uploadCalls =>
            (attempts[i].insertResult = "pending" /\ attempts'[i].insertResult = "ok")
       /\ attempts'[i].updateCalls > attempts[i].updateCalls =>
            (attempts[i].uploadResult = "pending" /\ attempts'[i].uploadResult = "ok")
  /\ \A i \in DOMAIN attempts' \ Attempts : attempts'[i].pc = "Inserting"

C10_SequentialCalls == [](C10_Inv) /\ [][C10_Step]_vars

C10_Witness ==
  \E i \in Attempts :
    /\ attempts[i].pc = "Done"
    /\ attempts[i].insertResult = "ok"
    /\ attempts[i].uploadResult = "ok"
    /\ attempts[i].updateResult = "ok"
    /\ \E j \in Attempts : attempts[j].pc = "Inserting"

\* C11: once a consented submit has begun it runs to a terminal state.  If
\* every remote call returns, every attempt eventually reaches Done or one
\* of the Failed states, whatever the user does meanwhile; the step in
\* which it gets there sets status 'success' (Done) or 'error' (Failed),
\* one of the two; and a terminal attempt stays where it is, so it never
\* surfaces a second outcome.
C11_Step ==
  \A i \in Attempts :
    /\ i \in DOMAIN attempts'
    /\ (attempts[i].pc \in InFlight /\ attempts'[i].pc = "Done") =>
         status' = "success"
    /\ (attempts[i].pc \in InFlight /\ attempts'[i].pc \in Failed) =>
         status' = "error"
    /\ attempts[i].pc \in Terminal => attempts'[i].pc = attempts[i].pc

C11_Inv ==
  \A i \in Attempts : attempts[i].pc \in InFlight \cup Terminal

\* An attempt, once begun, is infinitely often terminal; with C11_Step (a
\* terminal attempt stays terminal) it is terminal from some point on.
C11_Terminates ==
  \A i \in 1..MaxInputs :
    []<>(i \in Attempts => attempts[i].pc \in Terminal)

C11_RunsToTerminalState ==
  /\ [](C11_Inv)
  /\ [][C11_Step]_vars
  /\ C11_Terminates

C11_Witness ==
  /\ Len(attempts) = 1
  /\ attempts[1].pc = "Done"
  /\ attempts[1].updateResult = "ok"
  /\ status = "success"
  /\ stepIndex = 2
  /\ consent = FALSE
  /\ form.photo.file = <<>>

====
